---- MODULE Spec2Model ----
(***************************************************************************)
(* n8n-workflow-proxy: a Cloudflare Worker that forwards an inbound HTTP   *)
(* request to the n8n instance at env.N8N_BASE_URL, choosing between the   *)
(* /webhook-test/{id} and /webhook/{id} endpoints.                         *)
(*                                                                         *)
(* The repository holds four versions of the worker's fetch handler; the   *)
(* variable `variant` says which one is deployed:                          *)
(*   "strategy"    src/unnamed/part_000          (mode segment, /tp/{id})  *)
(*   "flag"        src/unnamed/part_001:11-113   (?t flag, always retried) *)
(*   "flagInspect" src/unnamed/part_001:125-254  (?t flag, body inspected) *)
(*   "inspect"     src/src/index.js              (body inspected)          *)
(*                                                                         *)
(* One inbound request is handled at a time.  A handler is an async        *)
(* function: each action below is the code that runs between two awaits.   *)
(* JavaScript values true/false/null/undefined are written as strings.     *)
(***************************************************************************)
EXTENDS Integers, Sequences, FiniteSets, TLC

VARIABLES
    variant,    \* which version of the handler is deployed
    env,        \* the worker's environment bindings: [N8N_BASE_URL]
    pc,         \* position of the fetch handler
    request,    \* the inbound Request
    workflowId, \* local of fetch
    option,     \* local of fetch (part_000)
    hasTestParam, \* local of fetch (part_001)
    headers,    \* local of fetch: the outbound headers
    strategy,   \* local of executeWebhookStrategy
    calls,      \* every outbound Request handed to the global fetch(), in order
    inflight,   \* indices of the outbound calls not yet settled
    replies,    \* call index -> how the upstream settled that call
    awaiting,   \* index of the call the handler is suspended on (0: none)
    result,     \* what the fetch handler produced: a Response or a rejection
    prev,       \* history: the primary response of an earlier request and what followed it
    parked      \* a second invocation of fetch, suspended while this one runs

locals == <<workflowId, option, hasTestParam, headers, strategy>>
net    == <<calls, inflight, replies, awaiting>>
vars   == <<variant, env, pc, request, workflowId, option, hasTestParam, headers, strategy,
            calls, inflight, replies, awaiting, result, prev, parked>>

----------------------------------------------------------------------------
\* Values of the JavaScript runtime

Undefined == "undefined"
Null      == "null"
True      == "true"
False     == "false"

\* !!v; no path segment or base URL of the inputs below is spelled like one
\* of the four values above
Truthy(v) == v \notin {Undefined, Null, False, ""}

Not(v) == IF Truthy(v) THEN False ELSE True

NoHeaders == [h \in {} |-> ""]

\* Headers.set(name, value): names are case-insensitive, kept in lower case
LowerCase(name) ==
    CASE name = "Cache-Control" -> "cache-control"
      [] name = "Pragma"        -> "pragma"
      [] name = "Expires"       -> "expires"
      [] OTHER                  -> name

HeadersSet(h, name, value) ==
    [k \in DOMAIN h \cup {LowerCase(name)} |->
        IF k = LowerCase(name) THEN value ELSE h[k]]

\* new Response(body, {status}) and the responses the upstream produces
MkResponse(status, body, hdrs) ==
    [kind |-> "response", status |-> status, body |-> body, headers |-> hdrs]

NoResponse == [kind |-> "none"]

\* no request has been handled yet
NoHistory == [kind |-> "none"]

\* what one invocation of fetch holds before it is given a request
IdleInvocation ==
    [pc |-> "idle", request |-> NoResponse, workflowId |-> "", option |-> "",
     hasTestParam |-> Undefined, headers |-> NoHeaders,
     strategy |-> [primary |-> Undefined, fallback |-> Undefined],
     calls |-> <<>>, inflight |-> {}, replies |-> <<>>, awaiting |-> 0,
     result |-> NoResponse]

\* A rejection of an async function: the thrown value, tagged with the
\* ordinal of the outbound attempt that caused it (0: none did)
MkError(name, status, response, attempt) ==
    [kind |-> "throw", name |-> name, status |-> status,
     response |-> response, attempt |-> attempt]

\* new URL(s) throws a TypeError unless s is an absolute URL; pathname holds the
\* segments of the URL's own path
URLTable ==
    ("https://n8n.example.com" :>
        [origin |-> "https://n8n.example.com", host |-> "n8n.example.com",
         pathname |-> <<>>]) @@
    ("https://n8n.example.com/n8n" :>
        [origin |-> "https://n8n.example.com", host |-> "n8n.example.com",
         pathname |-> <<"n8n">>])

URLParses(s) == s \in DOMAIN URLTable

----------------------------------------------------------------------------
\* Inputs

Variants == {"strategy", "flag", "flagInspect", "inspect"}

\* unset, empty, a URL, a URL with a path, and a value that new URL() rejects
BaseUrls == {Undefined, "", "https://n8n.example.com", "https://n8n.example.com/n8n",
             "n8n.example.com"}

Tokens == {"tp", "pt", "t", "p", "x", "constructor"}
Ids    == {"123"}

\* how many path segments may follow the two the handlers read
MaxExtraSegments == 1

ExtraSegments == UNION {[1..n -> {"extra"}] : n \in 0..MaxExtraSegments}

\* url.pathname.split('/'): "/" gives <<"", "">>, "/tp/123" gives <<"", "tp", "123">>,
\* "/tp//123" gives <<"", "tp", "", "123">>
PathNames ==
    {<<"", "">>}
    \cup {<<"", a>> : a \in Tokens \cup Ids}
    \cup {<<"", a, b>> \o e : a \in Tokens \cup Ids, b \in Ids, e \in ExtraSegments}
    \cup {<<"", "tp", "", "123">>}

Searches == {"", "?param=value", "?t=", "?t=1&param=value"}

\* a GET carries no body; a POST carries one
Payloads == {[method |-> "GET", body |-> Null], [method |-> "POST", body |-> "{\"test\":\"data\"}"]}

InboundHeaders == {("host" :> "example.com") @@ ("content-type" :> "application/json")}

InboundRequests ==
    {[url |-> [pathname |-> p, search |-> s], method |-> m.method, body |-> m.body,
      bodyUsed |-> FALSE, headers |-> h] :
        p \in PathNames, s \in Searches, m \in Payloads, h \in InboundHeaders}

Statuses == {200, 201, 404}
Bodies   == {"Not found", "{\"code\":404}", "{\"code\":404"}
UpstreamHeaders ==
    {("content-type" :> "text/plain"),
     ("content-type" :> "text/plain") @@ ("cache-control" :> "max-age=60")
        @@ ("expires" :> "Wed, 21 Oct 2026 07:28:00 GMT")}

UpstreamResponses ==
    {MkResponse(s, b, h) : s \in Statuses, b \in Bodies, h \in UpstreamHeaders}

\* the global fetch() rejects when the call could not be completed
TransportFailure == [kind |-> "throw", name |-> "TypeError"]

UpstreamOutcomes == UpstreamResponses \cup {TransportFailure}

----------------------------------------------------------------------------
\* src/unnamed/part_000: the mode-segment worker

WEBHOOK_TYPES == [TEST |-> "webhook-test", PRODUCTION |-> "webhook"]

OPTION_TYPES ==
    [TEST_THEN_PROD |-> "tp", PROD_THEN_TEST |-> "pt", TEST_ONLY |-> "t", PROD_ONLY |-> "p"]

\* WEBHOOK_STRATEGIES with the two rows of 'pt' exchanged
WEBHOOK_STRATEGIES_PtSwapped ==
    (OPTION_TYPES.TEST_THEN_PROD :> [primary |-> True,  fallback |-> False]) @@
    (OPTION_TYPES.PROD_THEN_TEST :> [primary |-> True,  fallback |-> False]) @@
    (OPTION_TYPES.TEST_ONLY      :> [primary |-> True,  fallback |-> Null])  @@
    (OPTION_TYPES.PROD_ONLY      :> [primary |-> False, fallback |-> Null])

WEBHOOK_STRATEGIES ==
    (OPTION_TYPES.TEST_THEN_PROD :> [primary |-> True,  fallback |-> False]) @@
    (OPTION_TYPES.PROD_THEN_TEST :> [primary |-> False, fallback |-> True])  @@
    (OPTION_TYPES.TEST_ONLY      :> [primary |-> True,  fallback |-> Null])  @@
    (OPTION_TYPES.PROD_ONLY      :> [primary |-> False, fallback |-> Null])

\* WEBHOOK_STRATEGIES is an object literal: a key it does not own is looked up
\* on Object.prototype, where these names are defined
ObjectPrototypeKeys ==
    {"constructor", "toString", "toLocaleString", "valueOf", "hasOwnProperty",
     "isPrototypeOf", "propertyIsEnumerable", "__proto__"}

\* WEBHOOK_STRATEGIES[option] || WEBHOOK_STRATEGIES[OPTION_TYPES.PROD_ONLY]
\* An inherited member is a truthy object with neither .primary nor .fallback.
ResolveStrategy(opt) ==
    IF opt \in DOMAIN WEBHOOK_STRATEGIES THEN WEBHOOK_STRATEGIES[opt]
    ELSE IF opt \in ObjectPrototypeKeys
         THEN [primary |-> Undefined, fallback |-> Undefined]
         ELSE WEBHOOK_STRATEGIES[OPTION_TYPES.PROD_ONLY]

\* validateEnvironment testing only that the binding exists
validateEnvironmentDefined(e) == e.N8N_BASE_URL # Undefined

validateEnvironment(e) == Truthy(e.N8N_BASE_URL)

\* .filter(Boolean) on the pieces of the path
RECURSIVE FilterBoolean(_)
FilterBoolean(parts) ==
    IF parts = <<>> THEN <<>>
    ELSE IF Truthy(Head(parts)) THEN <<Head(parts)>> \o FilterBoolean(Tail(parts))
    ELSE FilterBoolean(Tail(parts))

\* parseRequestUrl taking a lone segment for the workflow id
parseRequestUrlLoneId(url) ==
    LET segs == FilterBoolean(url.pathname)
    IN [workflowId   |-> IF Len(segs) >= 1 THEN segs[Len(segs)] ELSE "",
        option       |-> IF Len(segs) >= 2 THEN segs[1] ELSE OPTION_TYPES.PROD_ONLY,
        searchParams |-> url.search]

\* parseRequestUrl without the default for a missing option
parseRequestUrlNoDefault(url) ==
    LET segs == FilterBoolean(url.pathname)
    IN [workflowId   |-> IF Len(segs) >= 2 THEN segs[2] ELSE "",
        option       |-> IF Len(segs) >= 1 THEN segs[1] ELSE Undefined,
        searchParams |-> url.search]

\* const [option, workflowId] = ...; x || default
parseRequestUrl(url) ==
    LET segs == FilterBoolean(url.pathname)
        opt  == IF Len(segs) >= 1 THEN segs[1] ELSE Undefined
        wid  == IF Len(segs) >= 2 THEN segs[2] ELSE Undefined
    IN [workflowId   |-> IF Truthy(wid) THEN wid ELSE "",
        option       |-> IF Truthy(opt) THEN opt ELSE OPTION_TYPES.PROD_ONLY,
        searchParams |-> url.search]

\* prepareHeaders without the headers.set
prepareHeadersKeepsHost(originalHeaders, baseUrl) == originalHeaders

\* defined only when new URL(baseUrl) parses
prepareHeaders(originalHeaders, baseUrl) ==
    HeadersSet(originalHeaders, "host", URLTable[baseUrl].host)

\* path of handleRequest
HookPath(wid, isTestHook) ==
    <<IF Truthy(isTestHook) THEN WEBHOOK_TYPES.TEST ELSE WEBHOOK_TYPES.PRODUCTION, wid>>

\* Request.clone(): a copy with its own unread body; the original stays unread
Clone(req) == [req EXCEPT !.bodyUsed = FALSE]

\* new URL(path + search, base) for a path that starts with "/": the path
\* replaces the one of the base, only the origin of the base is kept
ResolveURL(path, search, base) ==
    [origin |-> URLTable[base].origin, pathname |-> path, search |-> search]

\* makeRequest building the URL from the path alone
makeRequestNoSearch(path, originalRequest, hdrs, e) ==
    [url     |-> [origin   |-> URLTable[e.N8N_BASE_URL].origin,
                  pathname |-> path,
                  search   |-> ""],
     method  |-> Clone(originalRequest).method,
     headers |-> hdrs,
     body    |-> Clone(originalRequest).body]

\* the Request that makeRequest hands to the global fetch()
makeRequest(path, originalRequest, hdrs, e) ==
    LET clonedRequest == Clone(originalRequest)
    IN [url     |-> ResolveURL(path, originalRequest.url.search, e.N8N_BASE_URL),
        method  |-> clonedRequest.method,
        headers |-> hdrs,
        body    |-> clonedRequest.body]

\* createNotCachedResponse leaving alone a caching header the upstream set
createNotCachedResponseKeepsUpstream(response) ==
    LET setIfAbsent(h, name, value) ==
            IF LowerCase(name) \in DOMAIN h THEN h ELSE HeadersSet(h, name, value)
    IN [response EXCEPT !.headers =
        setIfAbsent(setIfAbsent(setIfAbsent(response.headers,
            "Cache-Control", "no-store, no-cache, must-revalidate, proxy-revalidate"),
            "Pragma", "no-cache"),
            "Expires", "0")]

\* new Response(response.body, response) and three headers.set
createNotCachedResponse(response) ==
    [response EXCEPT !.headers =
        HeadersSet(HeadersSet(HeadersSet(response.headers,
            "Cache-Control", "no-store, no-cache, must-revalidate, proxy-revalidate"),
            "Pragma", "no-cache"),
            "Expires", "0")]

MissingBaseUrlResponse ==
    MkResponse(500, "Error: N8N_BASE_URL environment variable is not set",
               ("content-type" :> "text/plain;charset=UTF-8"))

MissingWorkflowIdResponse ==
    MkResponse(400, "Error: No workflow ID provided in the URL",
               ("content-type" :> "text/plain;charset=UTF-8"))

\* what handleRequest throws for a response whose status is not 200
RequestError(response, attempt) ==
    MkError("RequestError", response.status, response, attempt)

----------------------------------------------------------------------------
\* Steps shared by the handlers

\* the handler settles: it returns r, or rejects with r
Settle(r) ==
    /\ result' = r
    /\ pc' = "done"
    /\ awaiting' = 0
    /\ UNCHANGED <<calls, inflight, replies>>

\* await fetch(new Request(...)): the call goes out and the handler suspends
Issue(out, at) ==
    /\ calls' = Append(calls, out)
    /\ inflight' = inflight \cup {Len(calls) + 1}
    /\ awaiting' = Len(calls) + 1
    /\ pc' = at
    /\ UNCHANGED <<replies, result>>

\* the outcome of the awaited call, as handleRequest sees it: a settled
\* transport failure is rethrown with the attempt's ordinal
Settled == awaiting \in DOMAIN replies

Reply == replies[awaiting]

----------------------------------------------------------------------------
Init ==
    /\ variant \in Variants
    /\ env \in {[N8N_BASE_URL |-> b] : b \in BaseUrls}
    /\ pc = "idle"
    /\ request = NoResponse
    /\ workflowId = ""
    /\ option = ""
    /\ hasTestParam = Undefined
    /\ headers = NoHeaders
    /\ strategy = [primary |-> Undefined, fallback |-> Undefined]
    /\ calls = <<>>
    /\ inflight = {}
    /\ replies = <<>>
    /\ awaiting = 0
    /\ result = NoResponse
    /\ prev = NoHistory
    /\ parked = IdleInvocation

\* the runtime invokes fetch(request, env, ctx)
Receive ==
    /\ pc = "idle"
    /\ request' \in InboundRequests
    /\ pc' = "fetch"
    /\ UNCHANGED <<parked, prev, variant, env, locals, net, result>>

\* the upstream settles an outbound call: a response, or a transport failure
Upstream ==
    /\ \E i \in inflight, o \in UpstreamOutcomes :
        /\ replies' = (i :> o) @@ replies
        /\ inflight' = inflight \ {i}
    /\ UNCHANGED <<parked, prev, variant, env, pc, request, locals, calls, awaiting, result>>

\* fetch testing the workflow id before the environment
StrategyFetchIdFirst ==
    /\ pc = "fetch"
    /\ variant = "strategy"
    /\ UNCHANGED <<parked, prev, variant, env, request>>
    /\ LET parsed == parseRequestUrl(request.url) IN
       /\ workflowId' = parsed.workflowId
       /\ option' = parsed.option
       /\ UNCHANGED hasTestParam
       /\ IF ~Truthy(parsed.workflowId)
          THEN Settle(MissingWorkflowIdResponse) /\ UNCHANGED <<headers, strategy>>
          ELSE IF ~validateEnvironment(env)
          THEN Settle(MissingBaseUrlResponse) /\ UNCHANGED <<headers, strategy>>
          ELSE IF ~URLParses(env.N8N_BASE_URL)
          THEN /\ Settle(MkError("TypeError", 0, NoResponse, 0))
               /\ UNCHANGED <<headers, strategy>>
          ELSE /\ headers' = prepareHeaders(request.headers, env.N8N_BASE_URL)
               /\ strategy' = ResolveStrategy(parsed.option)
               /\ Issue(makeRequest(HookPath(parsed.workflowId, strategy'.primary),
                                    request, headers', env), "primary")

\* part_000 fetch, up to the first await: validation, parsing, the strategy
\* lookup and the primary attempt's outbound call
StrategyFetch ==
    /\ pc = "fetch"
    /\ variant = "strategy"
    /\ UNCHANGED <<parked, prev, variant, env, request>>
    /\ IF ~validateEnvironment(env)
       THEN Settle(MissingBaseUrlResponse) /\ UNCHANGED locals
       ELSE LET parsed == parseRequestUrl(request.url) IN
            /\ workflowId' = parsed.workflowId
            /\ option' = parsed.option
            /\ UNCHANGED hasTestParam
            /\ IF ~Truthy(parsed.workflowId)
               THEN Settle(MissingWorkflowIdResponse) /\ UNCHANGED <<headers, strategy>>
               ELSE IF ~URLParses(env.N8N_BASE_URL)
               THEN \* prepareHeaders: new URL(baseUrl) throws
                    /\ Settle(MkError("TypeError", 0, NoResponse, 0))
                    /\ UNCHANGED <<headers, strategy>>
               ELSE /\ headers' = prepareHeaders(request.headers, env.N8N_BASE_URL)
                    /\ strategy' = ResolveStrategy(parsed.option)
                    /\ Issue(makeRequest(HookPath(parsed.workflowId, strategy'.primary),
                                         request, headers', env), "primary")

\* a catch block that picks the second hook from the primary's status
StrategyCatchAdaptive(error) ==
    IF strategy.fallback # Null
    THEN Issue(makeRequest(HookPath(workflowId, IF error.status = 404 THEN True ELSE False),
                           request, headers, env), "fallback")
    ELSE Settle(error)

\* the catch block of executeWebhookStrategy, entered with the primary's error
StrategyCatch(error) ==
    IF strategy.fallback # Null
    THEN Issue(makeRequest(HookPath(workflowId, strategy.fallback), request, headers, env),
               "fallback")
    ELSE Settle(error)

\* the fallback sent without waiting for the primary attempt
StrategyPrimarySpeculative ==
    /\ pc = "primary"
    /\ variant = "strategy"
    /\ strategy.fallback # Null
    /\ UNCHANGED <<parked, prev, variant, env, request, locals>>
    /\ Issue(makeRequest(HookPath(workflowId, strategy.fallback), request, headers, env),
             "fallback")

\* the fallback moved from the catch block to a finally block
StrategyPrimaryFinally ==
    /\ pc = "primary"
    /\ variant = "strategy"
    /\ Settled
    /\ UNCHANGED <<parked, prev, variant, env, request, locals>>
    /\ IF Reply.kind = "throw"
       THEN StrategyCatch(MkError(Reply.name, 0, NoResponse, awaiting))
       ELSE StrategyCatch(RequestError(Reply, awaiting))

\* handleRequest testing response.ok instead of status !== 200
StrategyPrimaryAcceptsOk ==
    /\ pc = "primary"
    /\ variant = "strategy"
    /\ Settled
    /\ UNCHANGED <<parked, prev, variant, env, request, locals>>
    /\ IF Reply.kind = "throw"
       THEN StrategyCatch(MkError(Reply.name, 0, NoResponse, awaiting))
       ELSE IF Reply.status \notin 200..299
       THEN StrategyCatch(RequestError(Reply, awaiting))
       ELSE Settle(createNotCachedResponse(Reply))

\* a catch block that falls back on a RequestError only
StrategyPrimaryStatusOnly ==
    /\ pc = "primary"
    /\ variant = "strategy"
    /\ Settled
    /\ UNCHANGED <<parked, prev, variant, env, request, locals>>
    /\ IF Reply.kind = "throw"
       THEN Settle(MkError(Reply.name, 0, NoResponse, awaiting))
       ELSE IF Reply.status # 200
       THEN StrategyCatch(RequestError(Reply, awaiting))
       ELSE Settle(createNotCachedResponse(Reply))

\* the primary attempt settled: handleRequest returns or throws, and
\* executeWebhookStrategy returns, falls back or rethrows
StrategyPrimary ==
    /\ pc = "primary"
    /\ variant = "strategy"
    /\ Settled
    /\ UNCHANGED <<parked, prev, variant, env, request, locals>>
    /\ IF Reply.kind = "throw"
       THEN StrategyCatch(MkError(Reply.name, 0, NoResponse, awaiting))
       ELSE IF Reply.status # 200
       THEN StrategyCatch(RequestError(Reply, awaiting))
       ELSE Settle(createNotCachedResponse(Reply))

\* a fallback whose failure is reported as the primary's
StrategyFallbackKeepsFirst ==
    /\ pc = "fallback"
    /\ variant = "strategy"
    /\ Settled
    /\ UNCHANGED <<parked, prev, variant, env, request, locals>>
    /\ IF Reply.kind = "response" /\ Reply.status = 200
       THEN Settle(createNotCachedResponse(Reply))
       ELSE IF replies[1].kind = "throw"
       THEN Settle(MkError(replies[1].name, 0, NoResponse, 1))
       ELSE Settle(RequestError(replies[1], 1))

\* a handler that waits on after a failed fallback instead of throwing
StrategyFallbackAwaitsSuccess ==
    /\ pc = "fallback"
    /\ variant = "strategy"
    /\ Settled
    /\ Reply.kind = "response" /\ Reply.status = 200
    /\ UNCHANGED <<parked, prev, variant, env, request, locals>>
    /\ Settle(createNotCachedResponse(Reply))

\* a fallback whose response is returned whatever its status
StrategyFallbackReturnsLast ==
    /\ pc = "fallback"
    /\ variant = "strategy"
    /\ Settled
    /\ UNCHANGED <<parked, prev, variant, env, request, locals>>
    /\ IF Reply.kind = "throw"
       THEN Settle(MkError(Reply.name, 0, NoResponse, awaiting))
       ELSE Settle(createNotCachedResponse(Reply))

\* the fallback attempt settled: its outcome is the handler's outcome
StrategyFallback ==
    /\ pc = "fallback"
    /\ variant = "strategy"
    /\ Settled
    /\ UNCHANGED <<parked, prev, variant, env, request, locals>>
    /\ IF Reply.kind = "throw"
       THEN Settle(MkError(Reply.name, 0, NoResponse, awaiting))
       ELSE IF Reply.status # 200
       THEN Settle(RequestError(Reply, awaiting))
       ELSE Settle(createNotCachedResponse(Reply))

----------------------------------------------------------------------------
\* src/unnamed/part_001, lines 11-113: the ?t worker that always falls back
\* (validateEnvironment, prepareHeaders, makeRequest and
\* createNotCachedResponse are the same code as in part_000)

\* url.searchParams.has(name)
\* url.searchParams: the name/value pairs that the query string parses to
URLSearchParams(search) ==
    CASE search = ""                 -> <<>>
      [] search = "?param=value"     -> <<[name |-> "param", value |-> "value"]>>
      [] search = "?t="              -> <<[name |-> "t", value |-> ""]>>
      [] search = "?t=1&param=value" -> <<[name |-> "t", value |-> "1"],
                                          [name |-> "param", value |-> "value"]>>

SearchParamsHas(search, name) ==
    IF \E i \in DOMAIN URLSearchParams(search) : URLSearchParams(search)[i].name = name
    THEN True ELSE False

\* parseRequestUrl reading the flag from the value of t: !!url.searchParams.get('t')
parseRequestUrlFlagByValue(url) ==
    LET pathParts == SelectSeq(url.pathname, LAMBDA part : part # "")
        params    == URLSearchParams(url.search)
    IN [workflowId   |-> IF Len(pathParts) > 0 THEN pathParts[1] ELSE "",
        hasTestParam |-> IF \E i \in DOMAIN params :
                                params[i].name = "t" /\ Truthy(params[i].value)
                         THEN True ELSE False,
        searchParams |-> url.search]

\* parseRequestUrl of part_001: the first non-empty piece is the workflow id
parseRequestUrlFlag(url) ==
    LET pathParts == SelectSeq(url.pathname, LAMBDA part : part # "")
    IN [workflowId   |-> IF Len(pathParts) > 0 THEN pathParts[1] ELSE "",
        hasTestParam |-> SearchParamsHas(url.search, "t"),
        searchParams |-> url.search]

\* path of handleRequest in part_001
FlagPath(wid, isTestHook) ==
    IF Truthy(isTestHook) THEN <<"webhook-test", wid>> ELSE <<"webhook", wid>>

\* the Error that handleRequest of part_001 throws
StatusError(response, attempt) == MkError("Error", response.status, response, attempt)

\* part_001:12-24 up to the first await
FlagFetch ==
    /\ pc = "fetch"
    /\ variant = "flag"
    /\ UNCHANGED <<parked, prev, variant, env, request, option, strategy>>
    /\ IF ~validateEnvironment(env)
       THEN Settle(MissingBaseUrlResponse) /\ UNCHANGED <<workflowId, hasTestParam, headers>>
       ELSE LET parsed == parseRequestUrlFlag(request.url) IN
            /\ workflowId' = parsed.workflowId
            /\ hasTestParam' = parsed.hasTestParam
            /\ IF ~Truthy(parsed.workflowId)
               THEN Settle(MissingWorkflowIdResponse) /\ UNCHANGED headers
               ELSE IF ~URLParses(env.N8N_BASE_URL)
               THEN Settle(MkError("TypeError", 0, NoResponse, 0)) /\ UNCHANGED headers
               ELSE /\ headers' = prepareHeaders(request.headers, env.N8N_BASE_URL)
                    /\ Issue(makeRequest(FlagPath(parsed.workflowId, parsed.hasTestParam),
                                         request, headers', env), "flagPrimary")

\* the catch callback calling handleRequest with the flag it already tried
FlagPrimarySameHook ==
    /\ pc = "flagPrimary"
    /\ variant = "flag"
    /\ Settled
    /\ UNCHANGED <<parked, prev, variant, env, request, locals>>
    /\ IF Reply.kind = "throw" \/ Reply.status # 200
       THEN Issue(makeRequest(FlagPath(workflowId, hasTestParam), request, headers, env),
                  "flagFallback")
       ELSE Settle(createNotCachedResponse(Reply))

\* handleRequest(hasTestParam) settled; .catch(() => handleRequest(!hasTestParam))
FlagPrimary ==
    /\ pc = "flagPrimary"
    /\ variant = "flag"
    /\ Settled
    /\ UNCHANGED <<parked, prev, variant, env, request, locals>>
    /\ IF Reply.kind = "throw" \/ Reply.status # 200
       THEN Issue(makeRequest(FlagPath(workflowId, Not(hasTestParam)), request, headers, env),
                  "flagFallback")
       ELSE Settle(createNotCachedResponse(Reply))

\* handleRequest(!hasTestParam) settled: nothing catches what it throws
FlagFallback ==
    /\ pc = "flagFallback"
    /\ variant = "flag"
    /\ Settled
    /\ UNCHANGED <<parked, prev, variant, env, request, locals>>
    /\ IF Reply.kind = "throw"
       THEN Settle(MkError(Reply.name, 0, NoResponse, awaiting))
       ELSE IF Reply.status # 200
       THEN Settle(StatusError(Reply, awaiting))
       ELSE Settle(createNotCachedResponse(Reply))

----------------------------------------------------------------------------
\* src/unnamed/part_001, lines 125-254: the ?t worker that inspects a 404

\* responseText.trim().startsWith('{')
LooksLikeJson(text) == text \in {"{\"code\":404}", "{\"code\":404", "{\"code\":500}", "{}"}

\* JSON.parse(text) does not throw
JsonParses(text) == text \in {"{\"code\":404}", "{\"code\":500}", "{}", "null", "\"Not found\""}

\* responseData && responseData.code === 404, for a text that parses
JsonCodeIs404(text) == text = "{\"code\":404}"

shouldTryWebhookTest(response) ==
    IF ~Truthy(response.body) \/ ~LooksLikeJson(response.body) THEN FALSE
    ELSE IF JsonParses(response.body) THEN JsonCodeIs404(response.body)
    ELSE FALSE

\* part_001:126-140 up to the first await of handleTestParamRequest or
\* handleStandardRequest
FlagInspectFetch ==
    /\ pc = "fetch"
    /\ variant = "flagInspect"
    /\ UNCHANGED <<parked, prev, variant, env, request, option, strategy>>
    /\ IF ~validateEnvironment(env)
       THEN Settle(MissingBaseUrlResponse) /\ UNCHANGED <<workflowId, hasTestParam, headers>>
       ELSE LET parsed == parseRequestUrlFlag(request.url) IN
            /\ workflowId' = parsed.workflowId
            /\ hasTestParam' = parsed.hasTestParam
            /\ IF ~Truthy(parsed.workflowId)
               THEN Settle(MissingWorkflowIdResponse) /\ UNCHANGED headers
               ELSE IF ~URLParses(env.N8N_BASE_URL)
               THEN Settle(MkError("TypeError", 0, NoResponse, 0)) /\ UNCHANGED headers
               ELSE /\ headers' = prepareHeaders(request.headers, env.N8N_BASE_URL)
                    /\ IF Truthy(parsed.hasTestParam)
                       THEN Issue(makeRequest(<<"webhook-test", parsed.workflowId>>,
                                              request, headers', env), "testParam")
                       ELSE Issue(makeRequest(<<"webhook", parsed.workflowId>>,
                                              request, headers', env), "standard")

\* handleTestParamRequest after its first makeRequest
FlagInspectTestParam ==
    /\ pc = "testParam"
    /\ variant = "flagInspect"
    /\ Settled
    /\ UNCHANGED <<parked, prev, variant, env, request, locals>>
    /\ IF Reply.kind = "throw"
       THEN Settle(MkError(Reply.name, 0, NoResponse, awaiting))
       ELSE IF Reply.status # 200
       THEN Issue(makeRequest(<<"webhook", workflowId>>, request, headers, env), "second")
       ELSE Settle(createNotCachedResponse(Reply))

\* handleStandardRequest after its first makeRequest (reading the body of the
\* cloned response waits on nothing outside the handler)
FlagInspectStandard ==
    /\ pc = "standard"
    /\ variant = "flagInspect"
    /\ Settled
    /\ UNCHANGED <<parked, prev, variant, env, request, locals>>
    /\ IF Reply.kind = "throw"
       THEN Settle(MkError(Reply.name, 0, NoResponse, awaiting))
       ELSE IF Reply.status = 404 /\ shouldTryWebhookTest(Reply)
       THEN Issue(makeRequest(<<"webhook-test", workflowId>>, request, headers, env), "second")
       ELSE Settle(createNotCachedResponse(Reply))

\* the second makeRequest of either function: its response is returned as it is
FlagInspectSecond ==
    /\ pc = "second"
    /\ variant = "flagInspect"
    /\ Settled
    /\ UNCHANGED <<parked, prev, variant, env, request, locals>>
    /\ IF Reply.kind = "throw"
       THEN Settle(MkError(Reply.name, 0, NoResponse, awaiting))
       ELSE Settle(createNotCachedResponse(Reply))

----------------------------------------------------------------------------
\* src/src/index.js: the worker that inspects a 404, written as one function

\* index.js:14-47: the first request is built on request.body itself, so
\* sending it reads the inbound body (when there is one)
InspectFetch ==
    /\ pc = "fetch"
    /\ variant = "inspect"
    /\ UNCHANGED <<parked, prev, variant, env, option, hasTestParam, strategy>>
    /\ IF ~Truthy(env.N8N_BASE_URL)
       THEN Settle(MissingBaseUrlResponse) /\ UNCHANGED <<request, workflowId, headers>>
       ELSE LET pathParts == SelectSeq(request.url.pathname, LAMBDA part : part # "")
                wid == IF Len(pathParts) > 0 THEN pathParts[1] ELSE ""
            IN
            /\ workflowId' = wid
            /\ IF ~Truthy(wid)
               THEN Settle(MissingWorkflowIdResponse) /\ UNCHANGED <<request, headers>>
               ELSE IF ~URLParses(env.N8N_BASE_URL)
               THEN Settle(MkError("TypeError", 0, NoResponse, 0)) /\ UNCHANGED <<request, headers>>
               ELSE /\ headers' = HeadersSet(request.headers, "host", URLTable[env.N8N_BASE_URL].host)
                    /\ request' = [request EXCEPT !.bodyUsed = (request.body # Null)]
                    /\ Issue([url     |-> [origin   |-> URLTable[env.N8N_BASE_URL].origin,
                                           pathname |-> <<"webhook", wid>>,
                                           search   |-> request.url.search],
                              method  |-> request.method,
                              headers |-> headers',
                              body    |-> request.body], "inspectPrimary")

\* index.js:50-84 after the first fetch: a 404 whose JSON body has code 404 is
\* retried on webhook-test; whatever the try block throws is logged and dropped
InspectPrimary ==
    /\ pc = "inspectPrimary"
    /\ variant = "inspect"
    /\ Settled
    /\ UNCHANGED <<parked, prev, variant, env, request, locals>>
    /\ IF Reply.kind = "throw"
       THEN Settle(MkError(Reply.name, 0, NoResponse, awaiting))
       ELSE IF Reply.status = 404 /\ JsonParses(Reply.body) /\ JsonCodeIs404(Reply.body)
                /\ ~request.bodyUsed
       THEN Issue([url     |-> [origin   |-> URLTable[env.N8N_BASE_URL].origin,
                                pathname |-> <<"webhook-test", workflowId>>,
                                search   |-> request.url.search],
                   method  |-> Clone(request).method,
                   headers |-> headers,
                   body    |-> Clone(request).body], "inspectFallback")
       ELSE Settle(Reply)

\* the second fetch placed after the try block: what it throws is not caught
InspectFallbackRethrows ==
    /\ pc = "inspectFallback"
    /\ variant = "inspect"
    /\ Settled
    /\ UNCHANGED <<parked, prev, variant, env, request, locals>>
    /\ IF Reply.kind = "throw"
       THEN Settle(MkError(Reply.name, 0, NoResponse, awaiting))
       ELSE Settle(Reply)

\* index.js:75-84: the second fetch sits inside the try block
InspectFallback ==
    /\ pc = "inspectFallback"
    /\ variant = "inspect"
    /\ Settled
    /\ UNCHANGED <<parked, prev, variant, env, request, locals>>
    /\ IF Reply.kind = "throw"
       THEN Settle(replies[1])
       ELSE Settle(Reply)

\* the runtime delivers the outcome to the client; the invocation's state is dropped
Deliver ==
    /\ pc = "done"
    /\ pc' = "idle"
    /\ request' = NoResponse
    /\ workflowId' = ""
    /\ option' = ""
    /\ hasTestParam' = Undefined
    /\ headers' = NoHeaders
    /\ strategy' = [primary |-> Undefined, fallback |-> Undefined]
    /\ calls' = <<>>
    /\ inflight' = {}
    /\ replies' = <<>>
    /\ awaiting' = 0
    /\ result' = NoResponse
    /\ UNCHANGED <<parked, prev, variant, env>>

Next ==
    \/ Receive
    \/ Upstream
    \/ StrategyFetch
    \/ StrategyPrimary
    \/ StrategyFallback
    \/ FlagFetch
    \/ FlagPrimary
    \/ FlagFallback
    \/ FlagInspectFetch
    \/ FlagInspectTestParam
    \/ FlagInspectStandard
    \/ FlagInspectSecond
    \/ InspectFetch
    \/ InspectPrimary
    \/ InspectFallback
    \/ Deliver

Spec == Init /\ [][Next]_vars

\* a step of the fetch handler: an async function runs on once the promise it
\* awaits has settled
Handle ==
    \/ StrategyFetch
    \/ StrategyPrimary
    \/ StrategyFallback
    \/ FlagFetch
    \/ FlagPrimary
    \/ FlagFallback
    \/ FlagInspectFetch
    \/ FlagInspectTestParam
    \/ FlagInspectStandard
    \/ FlagInspectSecond
    \/ InspectFetch
    \/ InspectPrimary
    \/ InspectFallback

\* every outbound call is settled in the end, and a handler that can run does
SpecLive == Spec /\ WF_vars(Upstream) /\ WF_vars(Handle)

----------------------------------------------------------------------------
\* The worker of part_001:125-254 over a sequence of requests, remembering one
\* earlier request: the primary response it got and whether a second call
\* followed it

\* Deliver, recording the request when its primary call got a response
DeliverRemember ==
    /\ pc = "done"
    /\ prev' = IF Len(calls) >= 1 /\ replies[1].kind = "response"
               THEN [kind |-> "seen", hasTestParam |-> hasTestParam,
                     status |-> replies[1].status, body |-> replies[1].body,
                     retried |-> (Len(calls) = 2)]
               ELSE prev
    /\ pc' = "idle"
    /\ request' = NoResponse
    /\ workflowId' = ""
    /\ option' = ""
    /\ hasTestParam' = Undefined
    /\ headers' = NoHeaders
    /\ strategy' = [primary |-> Undefined, fallback |-> Undefined]
    /\ calls' = <<>>
    /\ inflight' = {}
    /\ replies' = <<>>
    /\ awaiting' = 0
    /\ result' = NoResponse
    /\ UNCHANGED <<parked, variant, env>>

InitPolicy == Init /\ variant = "flagInspect"

NextPolicy ==
    \/ Receive
    \/ Upstream
    \/ FlagInspectFetch
    \/ FlagInspectTestParam
    \/ FlagInspectStandard
    \/ FlagInspectSecond
    \/ DeliverRemember

SpecPolicy == InitPolicy /\ [][NextPolicy]_vars

----------------------------------------------------------------------------
\* The worker of part_000 with two invocations of fetch open at once. The
\* runtime runs one handler at a time and may leave it for the other between
\* any two steps; everything fetch and the functions it calls declare is a
\* const local of the invocation, the module-level tables are never written.

ConcurrentRequests ==
    {r \in InboundRequests :
        /\ r.url.pathname \in {<<"", "tp", "123">>, <<"", "pt", "123">>,
                               <<"", "t", "123">>, <<"", "p", "123">>, <<"", "p">>}
        /\ r.url.search = ""}

ConcurrentOutcomes ==
    {MkResponse(s, "Not found", ("content-type" :> "text/plain")) : s \in {200, 404}}
    \cup {TransportFailure}

ReceiveConcurrent ==
    /\ pc = "idle"
    /\ request' \in ConcurrentRequests
    /\ pc' = "fetch"
    /\ UNCHANGED <<parked, prev, variant, env, locals, net, result>>

UpstreamConcurrent ==
    /\ \E i \in inflight, o \in ConcurrentOutcomes :
        /\ replies' = (i :> o) @@ replies
        /\ inflight' = inflight \ {i}
    /\ UNCHANGED <<parked, prev, variant, env, pc, request, locals, calls, awaiting, result>>

\* the state of the running invocation
Invocation ==
    [pc |-> pc, request |-> request, workflowId |-> workflowId, option |-> option,
     hasTestParam |-> hasTestParam, headers |-> headers, strategy |-> strategy,
     calls |-> calls, inflight |-> inflight, replies |-> replies, awaiting |-> awaiting,
     result |-> result]

\* the runtime leaving one handler for the other, were strategy a variable of
\* the module instead of a local of executeWebhookStrategy
SwitchSharedStrategy ==
    /\ parked' = Invocation
    /\ pc' = parked.pc
    /\ request' = parked.request
    /\ workflowId' = parked.workflowId
    /\ option' = parked.option
    /\ hasTestParam' = parked.hasTestParam
    /\ headers' = parked.headers
    /\ calls' = parked.calls
    /\ inflight' = parked.inflight
    /\ replies' = parked.replies
    /\ awaiting' = parked.awaiting
    /\ result' = parked.result
    /\ UNCHANGED <<strategy, prev, variant, env>>

\* the runtime leaves the running handler and resumes the other one
Switch ==
    /\ parked' = Invocation
    /\ pc' = parked.pc
    /\ request' = parked.request
    /\ workflowId' = parked.workflowId
    /\ option' = parked.option
    /\ hasTestParam' = parked.hasTestParam
    /\ headers' = parked.headers
    /\ strategy' = parked.strategy
    /\ calls' = parked.calls
    /\ inflight' = parked.inflight
    /\ replies' = parked.replies
    /\ awaiting' = parked.awaiting
    /\ result' = parked.result
    /\ UNCHANGED <<prev, variant, env>>

InitConcurrent == Init /\ variant = "strategy"

NextConcurrent ==
    \/ ReceiveConcurrent
    \/ UpstreamConcurrent
    \/ StrategyFetch
    \/ StrategyPrimary
    \/ StrategyFallback
    \/ Deliver
    \/ Switch

SpecConcurrent == InitConcurrent /\ [][NextConcurrent]_vars

----------------------------------------------------------------------------
\* Properties

\* the hook kinds of the outbound calls made so far
Hooks == [i \in 1..Len(calls) |-> calls[i].url.pathname[1]]

IsPrefix(a, b) == Len(a) <= Len(b) /\ \A i \in 1..Len(a) : a[i] = b[i]

\* every outbound call carries the inbound query string, method and body
CarriesInbound(call) ==
    /\ call.url.search = request.url.search
    /\ call.body = request.body

\* the handler made it past validation and header preparation
Dispatched == pc \notin {"idle", "fetch"} /\ headers # NoHeaders

\* how the last outbound call was settled (defined when calls # <<>>)
LastReply == replies[Len(calls)]

\* C1: in the mode-segment worker, a 'tp' request with a workflow id whose test
\* attempt answered a status other than 200 ends with exactly two outbound
\* calls, /webhook-test/{id} then /webhook/{id}, both with the inbound query
\* string and body.
C1_TestThenProdTwoCalls ==
    (/\ variant = "strategy" /\ pc = "done" /\ option = "tp" /\ workflowId # ""
     /\ 1 \in DOMAIN replies /\ replies[1].kind = "response" /\ replies[1].status # 200)
    => /\ Len(calls) = 2
       /\ calls[1].url.pathname = <<"webhook-test", workflowId>>
       /\ calls[2].url.pathname = <<"webhook", workflowId>>
       /\ CarriesInbound(calls[1])
       /\ CarriesInbound(calls[2])

C1_Witness ==
    /\ variant = "strategy" /\ pc = "done" /\ option = "tp"
    /\ Len(calls) = 2 /\ replies[1].kind = "response" /\ replies[1].status = 404
    /\ request.url.search = "?param=value" /\ request.body # Null

\* the table of section 4.2 for the four mode tokens
ModeRow ==
    ("tp" :> <<"webhook-test", "webhook">>) @@ ("pt" :> <<"webhook", "webhook-test">>) @@
    ("t" :> <<"webhook-test">>) @@ ("p" :> <<"webhook">>)

\* C2: for the modes tp, pt, t and p the attempts of executeWebhookStrategy are
\* a prefix of the mode's row, non-empty once it has been entered, and attempt
\* i goes to /{row[i]}/{id}.
C2_AttemptsFollowTable ==
    (variant = "strategy" /\ Dispatched /\ option \in DOMAIN ModeRow)
    => /\ Len(calls) >= 1
       /\ IsPrefix(Hooks, ModeRow[option])
       /\ \A i \in 1..Len(calls) : calls[i].url.pathname = <<ModeRow[option][i], workflowId>>

C2_Witness ==
    /\ variant = "strategy" /\ pc = "done" /\ option = "pt"
    /\ Hooks = <<"webhook", "webhook-test">>

\* C3 (as claimed): in mode 't' exactly one outbound call is made whatever its
\* status, and the caller receives a response with that status and body.
C3_TestOnlyVerbatim ==
    (variant = "strategy" /\ pc = "done" /\ option = "t" /\ Len(calls) >= 1)
    => /\ Len(calls) = 1
       /\ replies[1].kind = "response"
          => /\ result.kind = "response"
             /\ result.status = replies[1].status
             /\ result.body = replies[1].body

\* C4 (as claimed): a mode token other than tp, pt, t and p is dispatched as
\* 'p': one attempt, on the production hook, and no fallback.
C4_UnknownTokenIsProdOnly ==
    (variant = "strategy" /\ Dispatched /\ option \notin {"tp", "pt", "t", "p"})
    => /\ Len(calls) = 1
       /\ calls[1].url.pathname = <<"webhook", workflowId>>

\* the candidates of a request, from its mode alone
CandidateRow ==
    CASE variant = "strategy" ->
            IF option \in DOMAIN ModeRow THEN ModeRow[option]
            ELSE IF option \in ObjectPrototypeKeys THEN <<"webhook", "webhook">>
            ELSE <<"webhook">>
      [] variant \in {"flag", "flagInspect"} ->
            IF hasTestParam = True THEN <<"webhook-test", "webhook">>
            ELSE <<"webhook", "webhook-test">>
      [] OTHER -> <<"webhook", "webhook-test">>

\* C5: at most two outbound attempts are made for one inbound request, and
\* the hooks attempted are a prefix of a list fixed by the routing mode alone.
C5_AtMostTwoFixedOrder ==
    /\ Len(calls) <= 2
    /\ IsPrefix(Hooks, CandidateRow)

C5_Witness ==
    /\ variant = "strategy" /\ option = "tp" /\ Len(calls) = 2
    /\ replies[1].kind = "response" /\ replies[1].status = 404

\* C6: at most one outbound call of a request is in flight, and a later call
\* is issued only once the one before it has settled.
C6_AttemptsSequential ==
    /\ Cardinality(inflight) <= 1
    /\ \A i \in 2..Len(calls) : (i - 1) \in DOMAIN replies

C6_Witness ==
    /\ variant = "strategy" /\ Len(calls) = 2 /\ inflight = {2} /\ 1 \in DOMAIN replies

\* C7: when executeWebhookStrategy made both attempts and fails, what it throws
\* is the fallback's failure.
C7_FallbackFailureSurfaced ==
    (variant = "strategy" /\ pc = "done" /\ Len(calls) = 2 /\ result.kind = "throw")
    => /\ result.attempt = 2
       /\ IF replies[2].kind = "throw"
          THEN result.name = replies[2].name /\ result.response = NoResponse
          ELSE result.status = replies[2].status /\ result.response = replies[2]

C7_Witness ==
    /\ variant = "strategy" /\ pc = "done" /\ Len(calls) = 2 /\ result.kind = "throw"
    /\ replies[1].kind = "response" /\ replies[1].status = 404
    /\ replies[2].kind = "response" /\ replies[2].status = 201

\* C8 (as claimed): when the handler is done and its last attempt answered a
\* status other than 200, the caller receives that response's status and body.
C8_LastResponseReturned ==
    (/\ pc = "done" /\ Len(calls) >= 1 /\ Len(calls) \in DOMAIN replies
     /\ LastReply.kind = "response" /\ LastReply.status # 200)
    => /\ result.kind = "response"
       /\ result.status = LastReply.status
       /\ result.body = LastReply.body

\* C9: with N8N_BASE_URL empty or unset no outbound call is made, and the
\* response is the fixed 500.
C9_MissingBaseUrl ==
    (env.N8N_BASE_URL \in {"", Undefined})
    => /\ calls = <<>>
       /\ pc = "done"
          => /\ result.kind = "response"
             /\ result.status = 500
             /\ result.body = "Error: N8N_BASE_URL environment variable is not set"

C9_Witness ==
    /\ env.N8N_BASE_URL = "" /\ pc = "done" /\ result.kind = "response"
    /\ request.url.pathname = <<"", "tp", "123">>

\* the EndpointId of the inbound URL: the second non-empty path segment in the
\* mode-segment worker, the first one in the others
EndpointId ==
    LET segs == SelectSeq(request.url.pathname, LAMBDA x : x # "")
        at   == IF variant = "strategy" THEN 2 ELSE 1
    IN IF Len(segs) >= at THEN segs[at] ELSE ""

IsMissingWorkflowId(r) ==
    /\ r.kind = "response"
    /\ r.status = 400
    /\ r.body = "Error: No workflow ID provided in the URL"

\* C10 (as claimed): every request with an empty EndpointId is answered 400
\* with the fixed text.
C10_EmptyIdIs400 ==
    (pc = "done" /\ EndpointId = "") => IsMissingWorkflowId(result)

\* C10 (amended): every request with an empty EndpointId, made while
\* N8N_BASE_URL is set, is answered 400 with the fixed text, in every mode.
C10_EmptyIdIs400WhenConfigured ==
    (pc = "done" /\ EndpointId = "" /\ env.N8N_BASE_URL \notin {"", Undefined})
    => IsMissingWorkflowId(result)

C10_Witness ==
    /\ pc = "done" /\ variant = "strategy" /\ request.url.pathname = <<"", "tp">>
    /\ env.N8N_BASE_URL = "n8n.example.com" /\ IsMissingWorkflowId(result)

\* the request is handled under the content-inspecting retry policy
ContentInspecting ==
    \/ variant = "inspect"
    \/ variant = "flagInspect" /\ hasTestParam = False

\* C11 (as claimed): under the content-inspecting policy a primary 404 whose
\* body is {"code":404} ends with exactly two outbound calls; any other primary
\* response that is not a 200 ends with one call and is what the caller gets.
C11_RetryIffJson404 ==
    (/\ ContentInspecting /\ pc = "done" /\ Len(calls) >= 1
     /\ replies[1].kind = "response" /\ replies[1].status # 200)
    => IF replies[1].status = 404 /\ replies[1].body = "{\"code\":404}"
       THEN Len(calls) = 2
       ELSE /\ Len(calls) = 1
            /\ result.kind = "response"
            /\ result.status = replies[1].status
            /\ result.body = replies[1].body

\* the headers createNotCachedResponse overrides, and the values it sets
CacheHeaders ==
    ("cache-control" :> "no-store, no-cache, must-revalidate, proxy-revalidate") @@
    ("pragma" :> "no-cache") @@ ("expires" :> "0")

\* C12: a response R that went through createNotCachedResponse keeps R's
\* status, body and every header other than Cache-Control, Pragma and
\* Expires, and carries the three fixed values whatever R had for them.
C12_NotCachedResponse ==
    (/\ variant \in {"strategy", "flag", "flagInspect"} /\ pc = "done"
     /\ result.kind = "response" /\ Len(calls) >= 1)
    => /\ result.status = LastReply.status
       /\ result.body = LastReply.body
       /\ DOMAIN result.headers = DOMAIN LastReply.headers \cup DOMAIN CacheHeaders
       /\ \A h \in DOMAIN result.headers :
            result.headers[h] =
                IF h \in DOMAIN CacheHeaders THEN CacheHeaders[h] ELSE LastReply.headers[h]

C12_Witness ==
    /\ variant = "flagInspect" /\ pc = "done" /\ result.kind = "response" /\ Len(calls) = 2
    /\ LastReply.status = 404
    /\ "cache-control" \in DOMAIN LastReply.headers
    /\ LastReply.headers["cache-control"] = "max-age=60"
    /\ "pragma" \notin DOMAIN LastReply.headers

\* C13: in the mode-segment worker, once a primary attempt that failed at the
\* transport level has been handled, the modes with a fallback (tp, pt) have
\* made the second attempt, and the modes without one (t, p) have made no
\* second attempt and reject with the primary's failure itself.
C13_TransportFailureFallsBack ==
    (/\ variant = "strategy" /\ pc \in {"fallback", "done"} /\ Len(calls) >= 1
     /\ 1 \in DOMAIN replies /\ replies[1].kind = "throw")
    => /\ option \in {"tp", "pt"} => Len(calls) = 2
       /\ option \in {"t", "p"} =>
            /\ Len(calls) = 1
            /\ result.kind = "throw"
            /\ result.name = replies[1].name
            /\ result.attempt = 1

C13_Witness ==
    /\ variant = "strategy" /\ pc = "fallback" /\ option = "pt" /\ Len(calls) = 2
    /\ replies[1].kind = "throw" /\ Hooks = <<"webhook", "webhook-test">>

\* C14 (as claimed): when the last attempt of a request failed at the transport
\* level, the fetch handler answers with a 5xx response.
C14_TransportFailureIs5xx ==
    (/\ variant \in {"strategy", "flag"} /\ pc = "done" /\ Len(calls) >= 1
     /\ LastReply.kind = "throw")
    => /\ result.kind = "response"
       /\ result.status \in 500..599


\* the inbound query string has a parameter named t
FlagPresent == request.url.search \in {"?t=", "?t=1&param=value"}

\* C15: in the worker of part_001:11-113 the first attempt goes to webhook-test
\* when ?t is present and to webhook when it is absent, and once the first
\* attempt has failed (a status other than 200, or a throw) the other hook has
\* been attempted, whatever the request.
C15_FlaggedFirstThenOther ==
    (variant = "flag" /\ Len(calls) >= 1)
    => /\ Hooks[1] = IF FlagPresent THEN "webhook-test" ELSE "webhook"
       /\ (/\ pc \in {"flagFallback", "done"}
           /\ (replies[1].kind = "throw" \/ replies[1].status # 200))
          => /\ Len(calls) = 2
             /\ Hooks[2] = IF FlagPresent THEN "webhook" ELSE "webhook-test"

C15_Witness ==
    /\ variant = "flag" /\ pc = "flagFallback" /\ Len(calls) = 2
    /\ request.url.search = "?t=1&param=value"
    /\ replies[1].kind = "throw"
    /\ Hooks = <<"webhook-test", "webhook">>


\* C16 (as claimed): in the worker of part_001:125-254, two requests whose
\* primary calls got the same response (status and body) agree on whether a
\* second call followed, whatever their ?t flag.
C16_OneRetryTrigger ==
    (/\ prev # NoHistory /\ pc = "done" /\ Len(calls) >= 1
     /\ replies[1].kind = "response"
     /\ replies[1].status = prev.status /\ replies[1].body = prev.body)
    => (Len(calls) = 2) = prev.retried


\* C17 (as claimed): no outbound attempt reads the inbound request's own body:
\* while a request is handled its body stays unconsumed, so that every attempt,
\* the fallback included, can be built from a fresh copy of it.
C17_InboundBodyUnconsumed ==
    request # NoResponse => ~request.bodyUsed


\* the text of the base URL followed by a path and a query string, read as a URL
Concatenated(base, path, search) ==
    [origin |-> URLTable[base].origin, pathname |-> URLTable[base].pathname \o path,
     search |-> search]

\* C18 (as claimed): in the worker of part_000 every outbound call goes to the
\* URL that is N8N_BASE_URL followed by the hook path (/webhook/<id> or
\* /webhook-test/<id>) followed by the inbound query string, with the inbound
\* method.
C18_OutboundUrlIsConcatenation ==
    (variant = "strategy" /\ request # NoResponse)
    => \A i \in 1..Len(calls) :
        /\ \E hook \in {WEBHOOK_TYPES.TEST, WEBHOOK_TYPES.PRODUCTION} :
              calls[i].url = Concatenated(env.N8N_BASE_URL, <<hook, workflowId>>,
                                          request.url.search)
        /\ calls[i].method = request.method


\* the non-empty segments of the inbound path
Segments == SelectSeq(request.url.pathname, LAMBDA seg : seg # "")

\* C19: once fetch of part_000 has parsed the URL, option and workflowId are the
\* first and second non-empty path segments; a missing second segment gives
\* workflowId = "", a missing first segment gives option = "p"; further segments
\* are ignored, and a missing workflow id ends in a response, never in a throw.
C19_ParseRequestUrl ==
    (variant = "strategy" /\ pc \notin {"idle", "fetch"} /\ validateEnvironment(env))
    => /\ Len(Segments) >= 2 => option = Segments[1] /\ workflowId = Segments[2]
       /\ Len(Segments) = 1 => option = Segments[1] /\ workflowId = ""
       /\ Len(Segments) = 0 => option = "p" /\ workflowId = ""
       /\ Len(Segments) < 2 => pc = "done" /\ result.kind = "response"

C19_Witness ==
    /\ variant = "strategy" /\ pc = "done" /\ validateEnvironment(env)
    /\ request.url.pathname = <<"", "">>
    /\ option = "p" /\ workflowId = "" /\ result.kind = "response"


\* C20: the header set that fetch prepares has host = the host of N8N_BASE_URL
\* and every other inbound header with its inbound value, and no step taken
\* while a request is handled changes the inbound request's method, headers or
\* URL.
C20_HeadersDerivedRequestKept ==
    [][/\ (pc = "fetch" /\ headers' # headers)
          => /\ DOMAIN headers' = DOMAIN request.headers \cup {"host"}
             /\ headers'["host"] = URLTable[env.N8N_BASE_URL].host
             /\ \A h \in DOMAIN request.headers \ {"host"} : headers'[h] = request.headers[h]
       /\ (pc # "idle" /\ pc' # "idle")
          => /\ request'.method = request.method
             /\ request'.headers = request.headers
             /\ request'.url = request.url]_vars

C20_Witness ==
    /\ variant = "strategy" /\ pc = "fallback" /\ Len(calls) = 2
    /\ request.headers["host"] = "example.com"
    /\ headers["host"] = "n8n.example.com"
    /\ headers["content-type"] = request.headers["content-type"]
    /\ calls[2].headers = headers


\* what handleRequest throws for the answer a of attempt i
AttemptError(a, i) ==
    IF a.kind = "throw" THEN MkError(a.name, 0, NoResponse, i) ELSE RequestError(a, i)

Accepted(a) == a.kind = "response" /\ a.status = 200

\* the outbound calls and the outcome of the part_000 worker handling req on
\* its own, the upstream answering its calls with answers[1], answers[2]
\* (no outcome yet while an answer is outstanding)
Alone(req, e, answers) ==
    IF ~validateEnvironment(e) THEN [calls |-> <<>>, result |-> MissingBaseUrlResponse]
    ELSE LET parsed == parseRequestUrl(req.url) IN
         IF ~Truthy(parsed.workflowId)
         THEN [calls |-> <<>>, result |-> MissingWorkflowIdResponse]
         ELSE IF ~URLParses(e.N8N_BASE_URL)
         THEN [calls |-> <<>>, result |-> MkError("TypeError", 0, NoResponse, 0)]
         ELSE LET hdrs   == prepareHeaders(req.headers, e.N8N_BASE_URL)
                  strat  == ResolveStrategy(parsed.option)
                  first  == makeRequest(HookPath(parsed.workflowId, strat.primary), req, hdrs, e)
                  second == makeRequest(HookPath(parsed.workflowId, strat.fallback), req, hdrs, e)
              IN IF 1 \notin DOMAIN answers
                 THEN [calls |-> <<first>>, result |-> NoResponse]
                 ELSE IF Accepted(answers[1])
                 THEN [calls |-> <<first>>, result |-> createNotCachedResponse(answers[1])]
                 ELSE IF strat.fallback = Null
                 THEN [calls |-> <<first>>, result |-> AttemptError(answers[1], 1)]
                 ELSE IF 2 \notin DOMAIN answers
                 THEN [calls |-> <<first, second>>, result |-> NoResponse]
                 ELSE IF Accepted(answers[2])
                 THEN [calls |-> <<first, second>>,
                       result |-> createNotCachedResponse(answers[2])]
                 ELSE [calls |-> <<first, second>>, result |-> AttemptError(answers[2], 2)]

\* an invocation that has settled did what it would have done alone
AsAlone(inv) ==
    inv.pc = "done"
    => /\ inv.calls = Alone(inv.request, env, inv.replies).calls
       /\ inv.result = Alone(inv.request, env, inv.replies).result

\* C21: with two invocations of the part_000 fetch handler interleaved step by
\* step, the outbound calls and the outcome of each are those of the same
\* request handled alone with the same upstream answers.
C21_InterleavedAsAlone ==
    AsAlone(Invocation) /\ AsAlone(parked)

C21_Witness ==
    /\ pc = "done" /\ option = "tp" /\ Len(calls) = 2 /\ result.kind = "response"
    /\ parked.pc = "fallback" /\ parked.option = "pt" /\ Len(parked.calls) = 2
    /\ parked.replies[1].kind = "throw"

\* the same comparison for one invocation at a time, over every request
C21_SequentialAsAlone ==
    variant = "strategy" => AsAlone(Invocation)


\* C22: once fetch of part_001 has parsed the URL, workflowId is the first
\* non-empty path segment ("" when there is none) and hasTestParam is true
\* exactly when the query string has a parameter named t, empty value included.
C22_ParseRequestUrlFlag ==
    (/\ variant \in {"flag", "flagInspect"} /\ pc \notin {"idle", "fetch"}
     /\ validateEnvironment(env))
    => /\ workflowId = IF Len(Segments) >= 1 THEN Segments[1] ELSE ""
       /\ hasTestParam = IF FlagPresent THEN True ELSE False

C22_Witness ==
    /\ variant = "flag" /\ pc = "flagPrimary"
    /\ request.url.pathname = <<"", "tp", "123">> /\ request.url.search = "?t="
    /\ workflowId = "tp" /\ hasTestParam = True


\* C23: when the first outbound call of a request is answered with status 200,
\* no second call is made, and the handler returns that response (its status
\* and body), whatever the mode and whichever worker handles it.
C23_AcceptedPrimaryIsFinal ==
    (Len(calls) >= 1 /\ 1 \in DOMAIN replies /\ Accepted(replies[1]))
    => /\ Len(calls) = 1
       /\ pc = "done" => /\ result.kind = "response"
                         /\ result.status = 200
                         /\ result.body = replies[1].body

C23_Witness ==
    /\ variant = "strategy" /\ option = "tp" /\ pc = "done"
    /\ Len(calls) = 1 /\ Accepted(replies[1])
    /\ result.kind = "response" /\ result.status = 200 /\ result.body = replies[1].body


\* C24: in the part_000 worker a primary response is returned exactly when its
\* status is 200. Any other status, 201 included, makes handleRequest throw a
\* RequestError carrying the status and the response: with a mode that has a
\* fallback (tp, pt) the second call follows, with a mode that has none (t, p,
\* an unlisted token such as x) the error is the handler's outcome and no
\* second call is made.
C24_Only200Accepted ==
    (/\ variant = "strategy" /\ pc \in {"fallback", "done"} /\ Len(calls) >= 1
     /\ replies[1].kind = "response")
    => /\ replies[1].status = 200
          => /\ Len(calls) = 1
             /\ result.kind = "response" /\ result.status = 200
       /\ replies[1].status # 200
          => /\ option \in {"tp", "pt"} => Len(calls) = 2
             /\ option \in {"t", "p", "x"}
                => /\ Len(calls) = 1
                   /\ result.kind = "throw" /\ result.name = "RequestError"
                   /\ result.status = replies[1].status
                   /\ result.response = replies[1]

C24_Witness ==
    /\ variant = "strategy" /\ pc = "fallback" /\ option = "tp" /\ Len(calls) = 2
    /\ replies[1].kind = "response" /\ replies[1].status = 201


\* how far the handler has come: received, first call out, second call out, settled
Rank(p) ==
    CASE p = "idle" -> 0
      [] p = "fetch" -> 1
      [] p \in {"primary", "flagPrimary", "testParam", "standard", "inspectPrimary"} -> 2
      [] p \in {"fallback", "flagFallback", "second", "inspectFallback"} -> 3
      [] p = "done" -> 4

\* C25: given that every outbound call is settled in the end, every request
\* that fetch receives is settled (a response or a rejection), with at most two
\* outbound calls made for it, and the handler only ever moves forward: it
\* never returns to an attempt it has left.
C25_Terminates ==
    /\ (pc = "fetch") ~> (pc = "done")
    /\ [](Len(calls) <= 2)
    /\ [][pc' = "idle" \/ (Rank(pc') >= Rank(pc) /\ Len(calls') >= Len(calls))]_vars

C25_Witness ==
    /\ variant = "strategy" /\ pc = "done" /\ option = "pt" /\ Len(calls) = 2
    /\ replies[2].kind = "throw" /\ result.kind = "throw" /\ result.attempt = 2


\* C26 (as claimed): every response the part_000 fetch handler returns is the
\* 500 it builds, the 400 it builds, or an upstream response of status 200 put
\* through createNotCachedResponse; an upstream response of another status is
\* never returned.
C26_ReturnedResponses ==
    (variant = "strategy" /\ pc = "done" /\ result.kind = "response")
    => \/ Len(calls) = 0 /\ result = MissingBaseUrlResponse
       \/ Len(calls) = 0 /\ result = MissingWorkflowIdResponse
       \/ /\ Len(calls) >= 1
          /\ LastReply.kind = "response" /\ LastReply.status = 200
          /\ result = createNotCachedResponse(LastReply)

C26_Witness ==
    /\ variant = "strategy" /\ pc = "done" /\ result.kind = "response"
    /\ Len(calls) = 2 /\ replies[1].kind = "response" /\ replies[1].status = 404
    /\ result = createNotCachedResponse(replies[2])


\* C27 (as claimed): a second outbound call of a request never goes to the
\* hook of the first: the two hook kinds differ, whatever the mode token.
C27_SecondHookDiffers ==
    (variant \in {"strategy", "flag"} /\ Len(calls) = 2) => Hooks[2] # Hooks[1]


\* C28: a request with an empty EndpointId is rejected without any outbound
\* call, and the configuration is looked at first: with N8N_BASE_URL empty or
\* unset the answer is the 500 of the configuration error, otherwise the 400.
C28_ConfigurationBeforeId ==
    (pc = "done" /\ EndpointId = "")
    => /\ Len(calls) = 0
       /\ IF Truthy(env.N8N_BASE_URL)
          THEN IsMissingWorkflowId(result)
          ELSE result = MissingBaseUrlResponse

C28_Witness ==
    /\ variant = "strategy" /\ pc = "done" /\ env.N8N_BASE_URL = Undefined
    /\ request.url.pathname = <<"", "tp">> /\ EndpointId = ""
    /\ result = MissingBaseUrlResponse /\ Len(calls) = 0


\* C29: in the worker of src/src/index.js, after a primary 404 whose JSON body
\* has code 404, a fallback that cannot be built (the inbound body is already
\* used, so request.clone() throws) or whose fetch() rejects leaves the caller
\* with the primary's 404 response as it was; nothing is thrown.
C29_FallbackFailureSwallowed ==
    (/\ variant = "inspect" /\ pc = "done" /\ Len(calls) >= 1
     /\ replies[1].kind = "response" /\ replies[1].status = 404
     /\ JsonParses(replies[1].body) /\ JsonCodeIs404(replies[1].body)
     /\ \/ request.bodyUsed
        \/ Len(calls) = 2 /\ replies[2].kind = "throw")
    => result = replies[1]

C29_Witness ==
    /\ variant = "inspect" /\ pc = "done" /\ Len(calls) = 2
    /\ request.method = "GET"
    /\ replies[1].kind = "response" /\ replies[1].status = 404
    /\ replies[1].body = "{\"code\":404}"
    /\ replies[2].kind = "throw" /\ result = replies[1]

====
